---- MODULE Spec2Model ----
(***************************************************************************)
(* Model of the metric value model of src/event/metric.rs: the Metric     *)
(* struct, its merge (Metric::add) and its reset (Metric::reset).          *)
(*                                                                         *)
(* One series (`target`) receives a sequence of add(&other) and reset()    *)
(* calls.  f64 payloads are modelled by small finite integers (on which    *)
(* f64 addition is exact); u32 payloads keep their width.                  *)
(*                                                                         *)
(* Further specifications share the variables and leave at rest what they  *)
(* do not use: SpecLookup (Metric::tag_matches, topology_events_processed),*)
(* SpecCapture (Metric::from_metric_kv), SpecDisplay (Display for Metric), *)
(* SpecSubscription (api::schema::metrics subscriptions) and SpecStatsd    *)
(* (sources::statsd over UDP).                                             *)
(***************************************************************************)
EXTENDS Integers, Sequences, FiniteSets, TLC

VARIABLES
    target,           \* the series the calls mutate (`&mut self`)
    other,            \* the argument of the last add (`other: &Self`)
    prev,             \* `target` as it was when the last call started
    op,               \* the last call: "new", "add" or "reset"
    panicked,         \* the last call unwound with an arithmetic-overflow panic
    first,            \* the shape the series had when it was first observed
    ops,              \* number of calls made so far
    call,             \* the last call of a pure function: its name and arguments
    ret,              \* what that call returned
    subs,             \* the metric subscriptions of the API, in order of arrival
    packets,          \* statsd: the UDP packets received so far
    out,              \* statsd: the events sent into the pipeline
    invalid,          \* statsd: the lines reported as invalid records
    source            \* statsd: "listening", or "stopped" once the receive loop has ended

seriesVars == <<target, other, prev, op, panicked, first, ops>>
callVars == <<call, ret>>
statsdVars == <<packets, out, invalid, source>>

vars == <<seriesVars, callVars, subs, statsdVars>>

----------------------------------------------------------------------------
(* Bounds of the model *)

MaxOps == 2          \* calls per behaviour
MaxLen == 1          \* samples in a Distribution observation
MaxBuckets == 2      \* buckets in an AggregatedHistogram
MaxSnapshot == 2     \* events in a captured snapshot
MaxLabels == 2       \* labels of an instrumentation key
MaxSamples == 2      \* samples read from a histogram handle
MaxInserted == 2     \* insertions into a tag map or a value set before formatting
MaxSubs == 1         \* subscriptions opened per behaviour
MaxTicks == 2        \* timer ticks per subscription
MaxFrames == 2       \* UDP frames read by the statsd source
MaxLines == 2        \* lines in a statsd packet
MaxWindow == 2       \* observations folded into a series after a reset

(* u32: a 32-bit unsigned integer, held as its two 16-bit halves, *)
(* hi * 2^16 + lo (the model checker's integers are 32-bit signed) *)
HalfModulus == 65536
u32(n) == [hi |-> n \div HalfModulus, lo |-> n % HalfModulus]
U32Max == [hi |-> HalfModulus - 1, lo |-> HalfModulus - 1]

----------------------------------------------------------------------------
(* Option<T>: None is the empty sequence, Some(x) the one-element sequence *)

None == <<>>
Some(x) == <<x>>

(* enum MetricKind *)
MetricKind == {"Incremental", "Absolute"}

(* enum StatisticKind *)
StatisticKind == {"Histogram", "Summary"}

is_absolute_never(kind) == FALSE

(* MetricKind::is_absolute, derived by is_enum_variant *)
is_absolute(kind) == kind = "Absolute"

(* enum MetricValue, one record shape per variant *)
Counter(v) == [type |-> "Counter", value |-> v]
Gauge(v) == [type |-> "Gauge", value |-> v]
Set(vs) == [type |-> "Set", values |-> vs]
Distribution(vs, rs, st) ==
    [type |-> "Distribution", values |-> vs, sample_rates |-> rs, statistic |-> st]
AggregatedHistogram(bs, cs, c, s) ==
    [type |-> "AggregatedHistogram", buckets |-> bs, counts |-> cs, count |-> c, sum |-> s]
AggregatedSummary(qs, vs, c, s) ==
    [type |-> "AggregatedSummary", quantiles |-> qs, values |-> vs, count |-> c, sum |-> s]

(* struct Metric *)
Metric(n, ts, tg, k, v) ==
    [name |-> n, timestamp |-> ts, tags |-> tg, kind |-> k, value |-> v]

----------------------------------------------------------------------------
(* The inputs: metrics a producer can construct *)

SeqsUpTo(S, n) == UNION {[1..k -> S] : k \in 0..n}

IsAscending(s) == \A i \in 1..(Len(s) - 1) : s[i] < s[i + 1]

F64Vals == {-2, 1}
SumVals == {3}
SetVals == {"old", "new"}
Samples == {<<1, 10>>, <<2, 20>>}          \* a sampled value and its sample rate
BucketVals == 51..(50 + MaxBuckets)
U32Vals == {u32(1), U32Max}
QuantileSeqs == {<<50>>, <<50, 99>>}       \* phi in hundredths

Counters == {Counter(v) : v \in F64Vals}
Gauges == {Gauge(v) : v \in F64Vals}
Sets == {Set(vs) : vs \in SUBSET SetVals}
Distributions ==
    {Distribution([i \in 1..Len(ss) |-> ss[i][1]], [i \in 1..Len(ss) |-> ss[i][2]], st) :
        ss \in SeqsUpTo(Samples, MaxLen), st \in StatisticKind}
BucketSeqs == {bs \in SeqsUpTo(BucketVals, MaxBuckets) : IsAscending(bs)}
AggregatedHistograms ==
    UNION {{AggregatedHistogram(bs, cs, c, s) :
                cs \in [1..Len(bs) -> U32Vals], c \in U32Vals, s \in SumVals}
           : bs \in BucketSeqs}
(* histogram observations: one more sample in every bucket *)
HistogramDeltas ==
    {AggregatedHistogram(bs, [i \in 1..Len(bs) |-> u32(1)], c, s) :
        bs \in BucketSeqs, c \in U32Vals, s \in SumVals}
(* histogram observations whose counts are not parallel to their buckets *)
MisalignedDeltas ==
    {AggregatedHistogram(bs, [i \in 1..(Len(bs) + 1) |-> u32(1)], u32(1), 3) :
        bs \in BucketSeqs}
AggregatedSummaries ==
    {AggregatedSummary(qs, [i \in 1..Len(qs) |-> 1], u32(2), 3) : qs \in QuantileSeqs}

(* the values a series starts with *)
MetricValues ==
    Counters \cup Gauges \cup Sets \cup Distributions
        \cup AggregatedHistograms \cup AggregatedSummaries

(* the values of the observations merged into it *)
ObservedValues ==
    Counters \cup Gauges \cup Sets \cup Distributions
        \cup HistogramDeltas \cup MisalignedDeltas \cup AggregatedSummaries

Tags1 == [normal_tag |-> "value"]
Tags2 == [normal_tag |-> "other", true_tag |-> "true"]

(* the series: a bare Incremental one as in the merge tests, *)
(* and an Absolute one carrying a timestamp and tags          *)
Targets ==
    {Metric("m", None, None, "Incremental", v) : v \in MetricValues}
        \cup {Metric("m", Some(1), Some(Tags1), "Absolute", v) : v \in MetricValues}

(* the observations handed to add: another name, timestamp and tags, either kind *)
Observations ==
    {Metric("n", Some(2), Some(Tags2), k, v) : k \in MetricKind, v \in ObservedValues}

----------------------------------------------------------------------------
(* Metric::add *)

(* the outcome of a call: the metric it leaves behind, and whether it panicked *)
Outcome(m, p) == [metric |-> m, panic |-> p]

(* f64 `+=` *)
add_f64(value, value2) == value + value2

add_counter(value, value2) == add_f64(value, value2)

add_gauge_replace(value, value2) == value2

add_gauge(value, value2) == add_f64(value, value2)

add_set_replace(values, values2) == values2

(* BTreeSet::extend *)
add_set(values, values2) == values \cup values2

extend_from_slice_front(v, v2) == v2 \o v

(* Vec::extend_from_slice *)
extend_from_slice(v, v2) == v \o v2

statistic_eq_any(statistic_a, statistic_b) == TRUE

(* the match guard `if statistic_a == statistic_b` *)
statistic_eq(statistic_a, statistic_b) == statistic_a = statistic_b

(* the guard `buckets == buckets2 && counts.len() == counts2.len()` *)
same_shape(v, v2) == v.buckets = v2.buckets /\ Len(v.counts) = Len(v2.counts)

(* u32 `+=`: panics on overflow when overflow checks are compiled in, wraps otherwise *)
u32_carry(a, b) == (a.lo + b.lo) \div HalfModulus
u32_overflows(a, b) == a.hi + b.hi + u32_carry(a, b) >= HalfModulus
u32_wrapping_add(a, b) ==
    [hi |-> (a.hi + b.hi + u32_carry(a, b)) % HalfModulus,
     lo |-> (a.lo + b.lo) % HalfModulus]

(* `for (i, c) in counts2.iter().enumerate() { counts[i] += c; }`, from index i on *)
RECURSIVE add_counts(_, _, _, _)
add_counts(counts, counts2, i, oc) ==
    IF i > Len(counts2) THEN [counts |-> counts, panic |-> FALSE]
    ELSE IF oc /\ u32_overflows(counts[i], counts2[i])
         THEN [counts |-> counts, panic |-> TRUE]
         ELSE add_counts([counts EXCEPT ![i] = u32_wrapping_add(counts[i], counts2[i])],
                         counts2, i + 1, oc)

(* the AggregatedHistogram arm *)
add_histogram(v, v2, oc) ==
    IF ~same_shape(v, v2) THEN [value |-> v, panic |-> FALSE]
    ELSE LET r == add_counts(v.counts, v2.counts, 1, oc)
             withCounts == [v EXCEPT !.counts = r.counts]
         IN  IF r.panic THEN [value |-> withCounts, panic |-> TRUE]
             ELSE IF oc /\ u32_overflows(v.count, v2.count)
                  THEN [value |-> withCounts, panic |-> TRUE]
                  ELSE [value |-> [withCounts EXCEPT
                                      !.count = u32_wrapping_add(v.count, v2.count),
                                      !.sum = add_f64(v.sum, v2.sum)],
                        panic |-> FALSE]

(* `match (&mut self.value, &other.value)` *)
add_value(v, v2, oc) ==
    CASE v.type = "Counter" /\ v2.type = "Counter" ->
            [value |-> Counter(add_counter(v.value, v2.value)), panic |-> FALSE]
      [] v.type = "Gauge" /\ v2.type = "Gauge" ->
            [value |-> Gauge(add_gauge(v.value, v2.value)), panic |-> FALSE]
      [] v.type = "Set" /\ v2.type = "Set" ->
            [value |-> Set(add_set(v.values, v2.values)), panic |-> FALSE]
      [] v.type = "Distribution" /\ v2.type = "Distribution"
            /\ statistic_eq(v.statistic, v2.statistic) ->
            [value |-> Distribution(extend_from_slice(v.values, v2.values),
                                    extend_from_slice(v.sample_rates, v2.sample_rates),
                                    v.statistic),
             panic |-> FALSE]
      [] v.type = "AggregatedHistogram" /\ v2.type = "AggregatedHistogram" ->
            add_histogram(v, v2, oc)
      [] OTHER -> [value |-> v, panic |-> FALSE]

add_incremental_target_only(self, other_, oc) ==
    IF is_absolute(other_.kind) \/ is_absolute(self.kind) THEN Outcome(self, FALSE)
    ELSE LET r == add_value(self.value, other_.value, oc)
         IN  Outcome([self EXCEPT !.value = r.value], r.panic)

add_restamped(self, other_, oc) ==
    IF is_absolute(other_.kind) THEN Outcome(self, FALSE)
    ELSE LET r == add_value(self.value, other_.value, oc)
         IN  Outcome([self EXCEPT !.value = r.value, !.timestamp = other_.timestamp],
                     r.panic)

(* Metric::add(&mut self, other: &Self) *)
add(self, other_, oc) ==
    IF is_absolute(other_.kind) THEN Outcome(self, FALSE)
    ELSE LET r == add_value(self.value, other_.value, oc)
         IN  Outcome([self EXCEPT !.value = r.value], r.panic)

----------------------------------------------------------------------------
(* Metric::reset *)

reset_distribution_rebuilt(v) == Distribution(<<>>, <<>>, "Histogram")

reset_distribution_values_only(v) == [v EXCEPT !.values = <<>>]

(* the Distribution arm: values.clear(); sample_rates.clear() *)
reset_distribution(v) == [v EXCEPT !.values = <<>>, !.sample_rates = <<>>]

reset_histogram_cleared(v) == [v EXCEPT !.counts = <<>>, !.count = u32(0), !.sum = 0]

(* the AggregatedHistogram arm: every count zeroed in place *)
reset_histogram(v) ==
    [v EXCEPT !.counts = [i \in 1..Len(v.counts) |-> u32(0)], !.count = u32(0), !.sum = 0]

reset_summary_totals_only(v) == [v EXCEPT !.count = u32(0), !.sum = 0]

(* the AggregatedSummary arm: every value zeroed in place *)
reset_summary(v) ==
    [v EXCEPT !.values = [i \in 1..Len(v.values) |-> 0], !.count = u32(0), !.sum = 0]

(* `match &mut self.value` *)
reset_value(v) ==
    CASE v.type = "Counter" -> Counter(0)
      [] v.type = "Gauge" -> Gauge(0)
      [] v.type = "Set" -> Set({})
      [] v.type = "Distribution" -> reset_distribution(v)
      [] v.type = "AggregatedHistogram" -> reset_histogram(v)
      [] v.type = "AggregatedSummary" -> reset_summary(v)

(* Metric::reset(&mut self) *)
reset(self) == [self EXCEPT !.value = reset_value(self.value)]

----------------------------------------------------------------------------
(* Metric::tag_matches *)

(* Option::is_some *)
is_some(opt) == opt # None

(* Option::filter *)
filter(opt, P(_)) == IF is_some(opt) /\ P(opt[1]) THEN opt ELSE None

(* BTreeMap::get *)
get(t, k) == IF k \in DOMAIN t THEN Some(t[k]) ELSE None

tag_matches_any_value(self, name, value) ==
    LET has_tag(t) == is_some(get(t, name))
    IN  is_some(filter(self.tags, has_tag))

(* Metric::tag_matches(&self, name, value) *)
tag_matches(self, name, value) ==
    LET eq_value(v) == v = value
        has_tag(t) == is_some(filter(get(t, name), eq_value))
    IN  is_some(filter(self.tags, has_tag))

----------------------------------------------------------------------------
(* Metric::from_metric_kv *)

(* `as f64` of an integer reading; exact below 2^53, where the model stays *)
as_f64(n) == n

(* `vec![1; n]` *)
vec_of(x, n) == [i \in 1..n |-> x]

(* the match on the handle: read_counter, read_gauge or read_histogram *)
value_of_handle(handle) ==
    CASE handle.type = "Counter" -> Counter(as_f64(handle.reading))
      [] handle.type = "Gauge" -> Gauge(as_f64(handle.reading))
      [] handle.type = "Histogram" ->
            LET values == [i \in 1..Len(handle.reading) |-> as_f64(handle.reading[i])]
                sample_rates == vec_of(1, Len(values))
            IN  Distribution(values, sample_rates, "Histogram")

(* key.labels().map(..).collect::<BTreeMap<_, _>>(): a later label of the *)
(* same key replaces an earlier one                                       *)
collect_labels(labels) ==
    [k \in {labels[i][1] : i \in 1..Len(labels)} |->
        labels[CHOOSE i \in 1..Len(labels) :
                   labels[i][1] = k /\ \A j \in (i + 1)..Len(labels) : labels[j][1] # k][2]]

(* BTreeMap::is_empty *)
is_empty(map) == DOMAIN map = {}

tags_of_labels_always_some(labels) == Some(labels)

(* `if labels.is_empty() { None } else { Some(labels) }` *)
tags_of_labels(labels) == IF is_empty(labels) THEN None ELSE Some(labels)

(* Metric::from_metric_kv(key, handle), at the instant Utc::now() = now *)
from_metric_kv(key, handle, now) ==
    Metric(key.name, Some(now), tags_of_labels(collect_labels(key.labels)),
           "Absolute", value_of_handle(handle))

----------------------------------------------------------------------------
(* impl Display for Metric *)

(* A String is the sequence of its chars, a char a one-character string;  *)
(* "U+0259" stands for the non-ASCII letter of the display test.  The     *)
(* formatter's output is a String as well.                                 *)
code_point(c) ==
    CASE c = " " -> 32 [] c = "\"" -> 34 [] c = "1" -> 49 [] c = "=" -> 61
      [] c = "B" -> 66 [] c = "\\" -> 92 [] c = "_" -> 95 [] c = "a" -> 97
      [] c = "b" -> 98 [] c = "U+0259" -> 601

(* char::is_ascii_alphanumeric *)
is_ascii_alphanumeric(c) ==
    code_point(c) \in (48..57) \cup (65..90) \cup (97..122)

(* Ord for String: lexicographic, a proper prefix first *)
str_lt(a, b) ==
    \E i \in 1..Len(b) :
        /\ \A j \in 1..(i - 1) : j <= Len(a) /\ a[j] = b[j]
        /\ i > Len(a) \/ code_point(a[i]) < code_point(b[i])

(* a BTreeMap is held as its entries in iteration order, a BTreeSet as its *)
(* elements in iteration order                                            *)
btree_map_insert_last(m, k, v) ==
    SelectSeq(m, LAMBDA en : en[1] # k) \o << <<k, v>> >>

(* BTreeMap::insert *)
btree_map_insert(m, k, v) ==
    SelectSeq(m, LAMBDA en : str_lt(en[1], k)) \o << <<k, v>> >>
        \o SelectSeq(m, LAMBDA en : str_lt(k, en[1]))

(* BTreeSet::insert *)
btree_set_insert(set, x) ==
    SelectSeq(set, LAMBDA y : str_lt(y, x)) \o <<x>> \o SelectSeq(set, LAMBDA y : str_lt(x, y))

(* a map built by inserting the pairs one after the other *)
RECURSIVE collect_map(_)
collect_map(pairs) ==
    IF pairs = <<>> THEN <<>>
    ELSE LET last == pairs[Len(pairs)]
         IN  btree_map_insert(collect_map(SubSeq(pairs, 1, Len(pairs) - 1)), last[1], last[2])

(* a set built by inserting the values one after the other *)
RECURSIVE collect_set(_)
collect_set(values) ==
    IF values = <<>> THEN <<>>
    ELSE btree_set_insert(collect_set(SubSeq(values, 1, Len(values) - 1)), values[Len(values)])

RECURSIVE concat(_)
concat(parts) == IF parts = <<>> THEN <<>> ELSE Head(parts) \o concat(Tail(parts))

digit(d) == <<"0", "1", "2", "3", "4", "5", "6", "7", "8", "9">>[d + 1]

(* `{}` of an unsigned integer *)
RECURSIVE display_uint(_)
display_uint(n) == IF n < 10 THEN <<digit(n)>> ELSE display_uint(n \div 10) \o <<digit(n % 10)>>

(* `{:0w}` of an unsigned integer *)
RECURSIVE display_padded(_, _)
display_padded(n, w) ==
    IF Len(display_uint(n)) >= w THEN display_uint(n)
    ELSE <<"0">> \o display_padded(n, w - 1)

(* `{}` of an f64 holding an integer: no fraction, no exponent *)
display_f64(x) == IF x < 0 THEN <<"-">> \o display_uint(0 - x) ELSE display_uint(x)

(* `{}` of a u32, by long division of its two halves *)
RECURSIVE display_u32(_)
display_u32(n) ==
    LET r == n.hi % 10
        q == [hi |-> n.hi \div 10, lo |-> (r * HalfModulus + n.lo) \div 10]
        d == (r * HalfModulus + n.lo) % 10
    IN  IF n.hi = 0 /\ n.lo < 10 THEN <<digit(n.lo)>> ELSE display_u32(q) \o <<digit(d)>>

(* `{:?}` of a DateTime<Utc> *)
debug_timestamp(t) ==
    display_padded(t.year, 4) \o <<"-">> \o display_padded(t.month, 2) \o <<"-">>
        \o display_padded(t.day, 2) \o <<"T">> \o display_padded(t.hour, 2) \o <<":">>
        \o display_padded(t.minute, 2) \o <<":">> \o display_padded(t.second, 2)
        \o (IF t.nano = 0 THEN <<>>
            ELSE IF t.nano % 1000000 = 0 THEN <<".">> \o display_padded(t.nano \div 1000000, 3)
            ELSE IF t.nano % 1000 = 0 THEN <<".">> \o display_padded(t.nano \div 1000, 6)
            ELSE <<".">> \o display_padded(t.nano, 9))
        \o <<"Z">>

(* char::escape_debug inside a str *)
escape_debug(c) ==
    IF c = "\"" \/ c = "\\" THEN <<"\\", c>> ELSE <<c>>

(* `{:?}` of a str *)
debug_str(word) ==
    <<"\"">> \o concat([i \in 1..Len(word) |-> escape_debug(word[i])]) \o <<"\"">>

(* write_word(fmt, word) *)
write_word(word) ==
    IF \E i \in 1..Len(word) : ~is_ascii_alphanumeric(word[i]) /\ word[i] # "_"
    THEN debug_str(word)
    ELSE word

(* write_list(fmt, sep, items, writer) *)
write_list(sep, items, writer(_)) ==
    concat([i \in 1..Len(items) |-> (IF i = 1 THEN <<>> ELSE sep) \o writer(items[i])])

(* Vec::iter().zip(Vec::iter()) *)
zip(xs, ys) ==
    [i \in 1..(IF Len(xs) < Len(ys) THEN Len(xs) ELSE Len(ys)) |-> <<xs[i], ys[i]>>]

(* the `match &self.value` of fmt *)
fmt_value(value) ==
    LET rate_at_value(p) == display_uint(p[2]) \o <<"@">> \o display_f64(p[1])
        count_at_bucket(p) == display_u32(p[2]) \o <<"@">> \o display_f64(p[1])
        quantile_at_value(p) == display_f64(p[1]) \o <<"@">> \o display_f64(p[2])
        totals == <<"c", "o", "u", "n", "t", "=">> \o display_u32(value.count)
                      \o <<" ", "s", "u", "m", "=">> \o display_f64(value.sum) \o <<" ">>
    IN  CASE value.type = "Counter" -> display_f64(value.value)
          [] value.type = "Gauge" -> display_f64(value.value)
          [] value.type = "Set" -> write_list(<<" ">>, value.values, write_word)
          [] value.type = "Distribution" ->
                (IF value.statistic = "Histogram"
                 THEN <<"h", "i", "s", "t", "o", "g", "r", "a", "m">>
                 ELSE <<"s", "u", "m", "m", "a", "r", "y">>)
                    \o <<" ">>
                    \o write_list(<<" ">>, zip(value.values, value.sample_rates), rate_at_value)
          [] value.type = "AggregatedHistogram" ->
                totals \o write_list(<<" ">>, zip(value.buckets, value.counts), count_at_bucket)
          [] value.type = "AggregatedSummary" ->
                totals \o write_list(<<" ">>, zip(value.quantiles, value.values), quantile_at_value)

(* <Metric as Display>::fmt *)
fmt(self) ==
    LET tag_writer(en) == write_word(en[1]) \o <<"=">> \o debug_str(en[2])
    IN  (IF self.timestamp # None THEN debug_timestamp(self.timestamp[1]) \o <<" ">> ELSE <<>>)
            \o write_word(self.name)
            \o <<"{">>
            \o (IF self.tags # None THEN write_list(<<",">>, self.tags[1], tag_writer) ELSE <<>>)
            \o <<"}", " ", (IF self.kind = "Absolute" THEN "=" ELSE "+"), " ">>
            \o fmt_value(self.value)

----------------------------------------------------------------------------
(* api::schema::metrics::topology_events_processed *)

(* enum Event, as far as the lookup tells its variants apart *)
EventMetric(m) == [type |-> "Metric", metric |-> m]
EventLog == [type |-> "Log"]

(* EventsProcessed::new(metric): the wrapper handed to the caller *)
EventsProcessed(m) == [events_processed |-> m]

(* a call that returned x, and a call that panicked *)
Returned(x) == [panic |-> FALSE, value |-> x]
Panicked == [panic |-> TRUE]

is_events_processed_of_tag_only(ev, key, topology_name) ==
    ev.type = "Metric" /\ tag_matches(ev.metric, key, topology_name)

(* the closure given to find: a metric named events_processed with the tag *)
is_events_processed_of(ev, key, topology_name) ==
    /\ ev.type = "Metric"
    /\ ev.metric.name = "events_processed"
    /\ tag_matches(ev.metric, key, topology_name)

(* Iterator::find: the first item, in order, that satisfies P *)
find(items, P(_)) ==
    IF \E i \in 1..Len(items) : P(items[i])
    THEN Some(items[CHOOSE i \in 1..Len(items) :
                       P(items[i]) /\ \A j \in 1..(i - 1) : ~P(items[j])])
    ELSE None

(* Option::map with EventsProcessed::new(ev.into_metric()) *)
map_events_processed(opt) ==
    IF is_some(opt) THEN Some(EventsProcessed(opt[1].metric)) ELSE None

(* topology_events_processed(topology_name), on the snapshot that            *)
(* capture_metrics(&GLOBAL_CONTROLLER) yields; GLOBAL_CONTROLLER is          *)
(* get_controller().expect(..), which panics when there is no controller     *)
topology_events_processed(topology_name, controller, snapshot) ==
    IF controller # "initialized" THEN Panicked
    ELSE LET key == "component_name"
             wanted(ev) == is_events_processed_of(ev, key, topology_name)
         IN  Returned(map_events_processed(find(snapshot, wanted)))

----------------------------------------------------------------------------
(* api::schema::metrics::MetricsSubscription and get_metrics *)

IntervalDefault == 1000
IntervalMin == 100
IntervalMax == 60000

(* validators::IntRange { min, max } *)
IntRange(min, max) == [min |-> min, max |-> max]

(* IntRange::is_valid: the value lies in min..=max *)
is_valid(validator, value) == validator.min <= value /\ value <= validator.max

(* how the build reads the attribute `#[arg(..)]` that one field carries  *)
(* where the others carry `#[graphql(..)]`: as the same declaration, or   *)
(* not at all                                                             *)
ArgAttributeBuilds == {TRUE, FALSE}

(* the `interval: i32` argument of each subscription field, as its attribute *)
(* declares it: default = 1000, validator(IntRange(min = "100", max = "60_000")) *)
interval_arg(field, arg_read) ==
    LET declared == [default |-> Some(IntervalDefault),
                     validator |-> Some(IntRange(IntervalMin, IntervalMax))]
        undeclared == [default |-> None, validator |-> None]
    IN  CASE field = "uptime_metrics" -> declared
          [] field = "events_processed_metrics" -> IF arg_read THEN declared ELSE undeclared
          [] field = "bytes_processed_metrics" -> declared
          [] field = "metrics" -> declared

(* `interval as u64`: sign-extended, held as four 16-bit limbs, highest first *)
as_u64(i) ==
    IF i < 0
    THEN <<HalfModulus - 1, HalfModulus - 1, (i \div HalfModulus) % HalfModulus, i % HalfModulus>>
    ELSE <<0, 0, i \div HalfModulus, i % HalfModulus>>

(* the closure handed to filter_map by each subscription field *)
filter_map_name(field, m) ==
    CASE field = "uptime_metrics" ->
            IF m.name = "uptime_seconds" THEN Some([wrapper |-> "Uptime", metric |-> m]) ELSE None
      [] field = "events_processed_metrics" ->
            IF m.name = "events_processed"
            THEN Some([wrapper |-> "EventsProcessed", metric |-> m]) ELSE None
      [] field = "bytes_processed_metrics" ->
            IF m.name = "bytes_processed"
            THEN Some([wrapper |-> "BytesProcessed", metric |-> m]) ELSE None
      [] field = "metrics" ->
            CASE m.name = "uptime_seconds" -> Some([wrapper |-> "Uptime", metric |-> m])
              [] m.name = "events_processed" -> Some([wrapper |-> "EventsProcessed", metric |-> m])
              [] m.name = "bytes_processed" -> Some([wrapper |-> "BytesProcessed", metric |-> m])
              [] OTHER -> None

(* one turn of the loop of get_metrics followed by the field's filter_map: *)
(* the items yielded for a captured snapshot                               *)
RECURSIVE yielded(_, _)
yielded(field, snapshot) ==
    IF snapshot = <<>> THEN <<>>
    ELSE LET ev == Head(snapshot)
         IN  (IF ev.type = "Metric" THEN filter_map_name(field, ev.metric) ELSE <<>>)
                 \o yielded(field, Tail(snapshot))

(* a subscription that never started: the query was refused *)
rejected(field, interval) ==
    [field |-> field, interval |-> interval, status |-> "rejected",
     period |-> None, ticks |-> 0, snapshots |-> 0, items |-> <<>>]

(* get_metrics(interval): the stream with its timer; tokio::time::interval *)
(* panics on a zero period                                                *)
get_metrics(field, interval) ==
    LET period == as_u64(interval)
    IN  IF period = <<0, 0, 0, 0>>
        THEN [field |-> field, interval |-> Some(interval), status |-> "panicked",
              period |-> None, ticks |-> 0, snapshots |-> 0, items |-> <<>>]
        ELSE [field |-> field, interval |-> Some(interval), status |-> "streaming",
              period |-> Some(period), ticks |-> 0, snapshots |-> 0, items |-> <<>>]

(* a subscription query on `field` with the optional `interval` argument: *)
(* the default is filled in, the validator runs, then the field resolves  *)
subscribe(field, arg, arg_read) ==
    LET declaration == interval_arg(field, arg_read)
        interval == IF arg = None THEN declaration.default ELSE arg
    IN  IF interval = None
        THEN rejected(field, None)
        ELSE IF declaration.validator # None /\ ~is_valid(declaration.validator[1], interval[1])
        THEN rejected(field, interval)
        ELSE get_metrics(field, interval[1])

----------------------------------------------------------------------------
(* sources::statsd: parse_event and statsd_udp *)

(* Result<T, E> *)
Ok(x) == [ok |-> TRUE, value |-> x]
Err(error) == [ok |-> FALSE, error |-> error]

(* parser::parse(line): the metric of a well-formed line, an error for any *)
(* other; the parser is outside these sources, the lines are the ones the  *)
(* source's tests send                                                     *)
parse(line) ==
    CASE line = "foo:1|c" -> Ok(Metric("foo", None, None, "Incremental", Counter(1)))
      [] line = "bar:42|g" -> Ok(Metric("bar", None, None, "Absolute", Gauge(42)))
      [] OTHER -> Err("malformed")

(* parse_event(line): the event to forward, and the internal event emitted *)
parse_event(line) ==
    LET parsed == parse(line)
    IN  IF parsed.ok
        THEN [event |-> Some(EventMetric(parsed.value)), emitted |-> "StatsdEventReceived"]
        ELSE [event |-> None, emitted |-> "StatsdInvalidRecord"]

(* a packet is its text cut into pieces: line bodies and "\n" *)
(* str::lines: the pieces between the "\n", without an empty last line *)
RECURSIVE lines_from(_, _)
lines_from(packet, current) ==
    IF packet = <<>> THEN (IF current = None THEN <<>> ELSE current)
    ELSE IF Head(packet) = "\n"
    THEN (IF current = None THEN <<"">> ELSE current) \o lines_from(Tail(packet), None)
    ELSE lines_from(Tail(packet), Some(Head(packet)))

lines(packet) == lines_from(packet, None)

(* what `packet.lines().filter_map(parse_event)` has done once `taken` *)
(* events were pulled from it and, when `exhausted`, it was pulled to  *)
(* its end: the events yielded and the lines reported invalid          *)
RECURSIVE take_while_parse_event(_, _, _)
take_while_parse_event(ls, taken, exhausted) ==
    IF ls = <<>> \/ (taken = 0 /\ ~exhausted) THEN [events |-> <<>>, invalid |-> <<>>]
    ELSE LET r == parse_event(Head(ls))
         IN  IF r.event = None
             THEN [events |-> <<>>, invalid |-> <<Head(ls)>>]
             ELSE LET rest == take_while_parse_event(Tail(ls), taken - 1, exhausted)
                  IN  [events |-> r.event \o rest.events, invalid |-> rest.invalid]

RECURSIVE filter_map_parse_event(_, _, _)
filter_map_parse_event(ls, taken, exhausted) ==
    IF ls = <<>> \/ (taken = 0 /\ ~exhausted) THEN [events |-> <<>>, invalid |-> <<>>]
    ELSE LET r == parse_event(Head(ls))
             rest == filter_map_parse_event(Tail(ls),
                         IF r.event = None THEN taken ELSE taken - 1, exhausted)
         IN  IF r.event = None
             THEN [events |-> rest.events, invalid |-> <<Head(ls)>> \o rest.invalid]
             ELSE [events |-> r.event \o rest.events, invalid |-> rest.invalid]

(* one turn of the receive loop of statsd_udp on a frame, the pipeline    *)
(* being open or closed: what is sent, what is reported, and whether the  *)
(* loop goes on.  A closed pipeline fails the first send, so the iterator *)
(* is pulled for one event only                                           *)
on_frame(frame, pipeline_open) ==
    IF ~frame.ok THEN [events |-> <<>>, invalid |-> <<>>, source |-> "listening"]
    ELSE LET ls == lines(frame.value)
             all == filter_map_parse_event(ls, 0, TRUE)
             one == filter_map_parse_event(ls, 1, FALSE)
         IN  IF pipeline_open \/ all.events = <<>>
             THEN [events |-> all.events, invalid |-> all.invalid, source |-> "listening"]
             ELSE [events |-> <<>>, invalid |-> one.invalid, source |-> "send_failed"]

----------------------------------------------------------------------------
(* The parts of the program a specification leaves at rest *)

NoCall == [fn |-> "none"]

SeriesIdle ==
    /\ target = Metric("", None, None, "Absolute", Counter(0))
    /\ other = target
    /\ prev = target
    /\ op = "new"
    /\ panicked = FALSE
    /\ first = <<>>
    /\ ops = 0

CallsIdle == call = NoCall /\ ret = None

SubsIdle == subs = <<>>

StatsdIdle == packets = <<>> /\ out = <<>> /\ invalid = <<>> /\ source = "stopped"

----------------------------------------------------------------------------
(* The state machine: one series, a sequence of calls on it *)

(* the shape of a value: its variant and what the variant fixes for the series *)
Shape(v) ==
    [type |-> v.type,
     statistic |-> IF v.type = "Distribution" THEN v.statistic ELSE "none",
     buckets |-> IF v.type = "AggregatedHistogram" THEN v.buckets ELSE <<>>,
     quantiles |-> IF v.type = "AggregatedSummary" THEN v.quantiles ELSE <<>>]

Init ==
    /\ target \in Targets
    /\ other = target
    /\ prev = target
    /\ op = "new"
    /\ panicked = FALSE
    /\ first = Shape(target.value)
    /\ ops = 0
    /\ CallsIdle /\ SubsIdle /\ StatsdIdle

(* The builds of the crate: with overflow checks a u32 `+=` that overflows *)
(* panics (the dev profile), without them it wraps (the release profile)    *)
Builds == {TRUE, FALSE}

(* target.add(&o), with the outcome of each build *)
Add(o) ==
    /\ ~panicked
    /\ ops < MaxOps
    /\ \E r \in {add(target, o, oc) : oc \in Builds} :
           /\ target' = r.metric
           /\ panicked' = r.panic
    /\ other' = o
    /\ prev' = target
    /\ op' = "add"
    /\ ops' = ops + 1
    /\ UNCHANGED <<first, callVars, subs, statsdVars>>

(* target.reset() *)
Reset ==
    /\ ~panicked
    /\ ops < MaxOps
    /\ target' = reset(target)
    /\ prev' = target
    /\ op' = "reset"
    /\ ops' = ops + 1
    /\ UNCHANGED <<other, panicked, first, callVars, subs, statsdVars>>

Next ==
    \/ \E o \in Observations : Add(o)
    \/ Reset

Spec == Init /\ [][Next]_vars

TypeOK ==
    /\ op \in {"new", "add", "reset"}
    /\ panicked \in BOOLEAN
    /\ ops \in 0..MaxOps

----------------------------------------------------------------------------
(* Lookups: tag_matches on a metric, and the targeted lookup on a snapshot *)

TagKeys == {"component_name", "component_kind"}
TagValues == {"", "in", "In", "in0"}
TagMaps == UNION {[ks -> TagValues] : ks \in SUBSET TagKeys}
TaggedMetrics ==
    {Metric("events_processed", None, tg, "Absolute", Counter(1)) :
        tg \in {None} \cup {Some(t) : t \in TagMaps}}

TopologyNames == {"in", "out"}
SnapshotEvents ==
    {EventLog} \cup
    {EventMetric(Metric(n, Some(1), tg, "Absolute", Counter(v))) :
        n \in {"events_processed", "bytes_processed"},
        tg \in {None} \cup {Some([component_name |-> c]) : c \in TopologyNames},
        v \in {1, 2}}
Snapshots == SeqsUpTo(SnapshotEvents, MaxSnapshot)
Controllers == {"initialized", "missing"}

LookupInit == SeriesIdle /\ CallsIdle /\ SubsIdle /\ StatsdIdle

(* m.tag_matches(key, value); the functions keep no state, so a behaviour *)
(* is one call                                                            *)
TagMatches(m, key, value) ==
    /\ call = NoCall
    /\ call' = [fn |-> "tag_matches", self |-> m, name |-> key, value |-> value]
    /\ ret' = tag_matches(m, key, value)
    /\ UNCHANGED <<seriesVars, subs, statsdVars>>

(* topology_events_processed(topology_name) *)
TopologyEventsProcessed(topology_name, controller, snapshot) ==
    /\ call = NoCall
    /\ call' = [fn |-> "topology_events_processed", topology_name |-> topology_name,
                 controller |-> controller, snapshot |-> snapshot]
    /\ ret' = topology_events_processed(topology_name, controller, snapshot)
    /\ UNCHANGED <<seriesVars, subs, statsdVars>>

LookupNext ==
    \/ \E m \in TaggedMetrics, key \in TagKeys \cup {"host"}, value \in TagValues :
           TagMatches(m, key, value)
    \/ \E n \in TopologyNames, c \in Controllers, sn \in Snapshots :
           TopologyEventsProcessed(n, c, sn)

SpecLookup == LookupInit /\ [][LookupNext]_vars

----------------------------------------------------------------------------
(* Capture: a Metric built from an instrumentation key and handle *)

Labels == {<<"host", "a">>, <<"host", "b">>, <<"kind", "sink">>}
Keys == {[name |-> n, labels |-> ls] :
            n \in {"uptime_seconds", "events_processed"}, ls \in SeqsUpTo(Labels, MaxLabels)}
Handles ==
    {[type |-> "Counter", reading |-> r] : r \in {0, 5}}
        \cup {[type |-> "Gauge", reading |-> r] : r \in {-1, 3}}
        \cup {[type |-> "Histogram", reading |-> rs] : rs \in SeqsUpTo({1, 2}, MaxSamples)}
Instants == {1, 2}

CaptureInit == SeriesIdle /\ CallsIdle /\ SubsIdle /\ StatsdIdle

(* Metric::from_metric_kv(key, handle) *)
FromMetricKv(key, handle, now) ==
    /\ call = NoCall
    /\ call' = [fn |-> "from_metric_kv", key |-> key, handle |-> handle, now |-> now]
    /\ ret' = from_metric_kv(key, handle, now)
    /\ UNCHANGED <<seriesVars, subs, statsdVars>>

CaptureNext == \E key \in Keys, handle \in Handles, now \in Instants : FromMetricKv(key, handle, now)

SpecCapture == CaptureInit /\ [][CaptureNext]_vars

----------------------------------------------------------------------------
(* Display: a Metric is built, its tags and Set values inserted one by one, *)
(* and formatted; or a single word is written                               *)

Words ==
    {<<>>, <<"a">>, <<"B">>, <<"a", "_", "1">>, <<"a", " ", "b">>, <<"a", "=", "b">>,
     <<"U+0259">>, <<"a", "\"">>}
TagKeyWords == {<<"a">>, <<"B">>, <<"a", " ", "b">>}
TagValueWords == {<<>>, <<"a", "\"">>}
TagInsertions == SeqsUpTo(TagKeyWords \X TagValueWords, MaxInserted)
SetInsertions == SeqsUpTo(Words, MaxInserted)
DisplayNames == {<<"a", "_", "1">>, <<"a", " ", "b">>}
DisplayTimestamps ==
    {None,
     Some([year |-> 2018, month |-> 11, day |-> 14,
           hour |-> 8, minute |-> 9, second |-> 10, nano |-> 11])}
DisplayValues ==
    {Counter(1), Gauge(-2),
     Distribution(<<1, 2>>, <<10, 20>>, "Histogram"),
     Distribution(<<>>, <<>>, "Summary"),
     AggregatedHistogram(<<51, 52>>, <<u32(53), u32(54)>>, u32(107), 103),
     AggregatedHistogram(<<51>>, <<U32Max>>, U32Max, 3),
     AggregatedSummary(<<1, 2>>, <<63, 64>>, u32(2), 127)}

(* what is formatted: the metric, and the insertions that built its tags *)
(* and its Set values (None where it has none)                           *)
DisplayInputs ==
    {[self |-> Metric(n, None, Some(collect_map(ins)), k, Counter(1)),
      tags_inserted |-> Some(ins), values_inserted |-> None] :
        n \in DisplayNames, k \in MetricKind, ins \in TagInsertions}
    \cup
    {[self |-> Metric(<<"a", "_", "1">>, None, tg[1], "Absolute", Set(collect_set(ins))),
      tags_inserted |-> tg[2], values_inserted |-> Some(ins)] :
        tg \in {<<None, None>>,
                <<Some(collect_map(<< <<(<<"a">>), (<<"a">>)>> >>)),
                  Some(<< <<(<<"a">>), (<<"a">>)>> >>)>>},
        ins \in SetInsertions}
    \cup
    {[self |-> Metric(n, ts, None, k, v), tags_inserted |-> None, values_inserted |-> None] :
        n \in DisplayNames, ts \in DisplayTimestamps, k \in MetricKind, v \in DisplayValues}

DisplayInit == SeriesIdle /\ CallsIdle /\ SubsIdle /\ StatsdIdle

(* format!("{}", metric) *)
Fmt(in) ==
    /\ call = NoCall
    /\ call' = [fn |-> "fmt", self |-> in.self,
                tags_inserted |-> in.tags_inserted, values_inserted |-> in.values_inserted]
    /\ ret' = fmt(in.self)
    /\ UNCHANGED <<seriesVars, subs, statsdVars>>

(* write_word(fmt, word) on an empty formatter *)
WriteWord(word) ==
    /\ call = NoCall
    /\ call' = [fn |-> "write_word", word |-> word]
    /\ ret' = write_word(word)
    /\ UNCHANGED <<seriesVars, subs, statsdVars>>

DisplayNext ==
    \/ \E in \in DisplayInputs : Fmt(in)
    \/ \E word \in Words : WriteWord(word)

SpecDisplay == DisplayInit /\ [][DisplayNext]_vars

----------------------------------------------------------------------------
(* Subscriptions: clients subscribe, timers tick, clients cancel *)

Fields == {"uptime_metrics", "events_processed_metrics", "bytes_processed_metrics", "metrics"}
IntervalArgs == {None} \cup {Some(i) : i \in {-1, 0, 99, 100, 60000, 60001}}
TickSnapshots ==
    {<<>>,
     <<EventMetric(Metric("uptime_seconds", None, None, "Absolute", Gauge(1))),
       EventLog,
       EventMetric(Metric("events_processed", None, None, "Absolute", Counter(1))),
       EventMetric(Metric("bytes_processed", None, None, "Absolute", Counter(1))),
       EventMetric(Metric("other", None, None, "Absolute", Counter(1)))>>}

SubscriptionInit == SeriesIdle /\ CallsIdle /\ SubsIdle /\ StatsdIdle

(* a subscription query arrives *)
Subscribe(field, arg) ==
    /\ Len(subs) < MaxSubs
    /\ \E arg_read \in ArgAttributeBuilds : subs' = Append(subs, subscribe(field, arg, arg_read))
    /\ UNCHANGED <<seriesVars, callVars, statsdVars>>

(* interval.tick() completes on subscription i: capture, filter, deliver *)
Tick(i, snapshot) ==
    /\ subs[i].status = "streaming"
    /\ subs[i].ticks < MaxTicks
    /\ subs' = [subs EXCEPT ![i].ticks = @ + 1,
                            ![i].snapshots = @ + 1,
                            ![i].items = @ \o yielded(subs[i].field, snapshot)]
    /\ UNCHANGED <<seriesVars, callVars, statsdVars>>

(* the client drops the stream of subscription i *)
Cancel(i) ==
    /\ subs[i].status = "streaming"
    /\ subs' = [subs EXCEPT ![i].status = "cancelled", ![i].period = None]
    /\ UNCHANGED <<seriesVars, callVars, statsdVars>>

SubscriptionNext ==
    \/ \E field \in Fields, arg \in IntervalArgs : Subscribe(field, arg)
    \/ \E i \in 1..Len(subs), snapshot \in TickSnapshots : Tick(i, snapshot)
    \/ \E i \in 1..Len(subs) : Cancel(i)

SpecSubscription == SubscriptionInit /\ [][SubscriptionNext]_vars

----------------------------------------------------------------------------
(* Statsd: the UDP source reads frames until shutdown or a failed send *)

StatsdLines == {"foo:1|c", "bar:42|g", "garbage"}

(* a packet as the tests send it: every line followed by "\n" *)
packet_of(ls) == concat([i \in 1..Len(ls) |-> <<ls[i], "\n">>])

StatsdFrames ==
    {Ok(packet_of(ls)) : ls \in SeqsUpTo(StatsdLines, MaxLines)} \cup {Err("read")}

StatsdInit ==
    /\ SeriesIdle /\ CallsIdle /\ SubsIdle
    /\ packets = <<>> /\ out = <<>> /\ invalid = <<>>
    /\ source = "listening"

(* `stream.next().await` yields a frame *)
Frame(frame, pipeline_open) ==
    /\ source = "listening"
    /\ Len(packets) < MaxFrames
    /\ LET r == on_frame(frame, pipeline_open)
       IN  /\ packets' = Append(packets, frame)
           /\ out' = out \o r.events
           /\ invalid' = invalid \o r.invalid
           /\ source' = r.source
    /\ UNCHANGED <<seriesVars, callVars, subs>>

(* the shutdown signal ends the stream (take_until) *)
Shutdown ==
    /\ source = "listening"
    /\ source' = "shutdown"
    /\ UNCHANGED <<seriesVars, callVars, subs, packets, out, invalid>>

StatsdNext ==
    \/ \E frame \in StatsdFrames, pipeline_open \in BOOLEAN : Frame(frame, pipeline_open)
    \/ Shutdown

SpecStatsd == StatsdInit /\ [][StatsdNext]_vars

----------------------------------------------------------------------------
(* Properties of Metric::add and Metric::reset *)

Merging == op = "add" /\ other.kind = "Incremental"
SameVariant(t) == prev.value.type = t /\ other.value.type = t

(* C1: add with an Absolute `other` is a no-op: the whole target (name, *)
(* timestamp, tags, kind, value) is what it was before the call, for    *)
(* every target and every value variant.                                *)
C1_AbsoluteOtherIsNoop ==
    (op = "add" /\ other.kind = "Absolute") => (target = prev /\ ~panicked)

C1_Witness ==
    /\ op = "add" /\ other.kind = "Absolute"
    /\ SameVariant("Counter")
    /\ other.value.value # 0

(* C2: an Incremental Counter added to a Counter, or Gauge to a Gauge,     *)
(* leaves the same variant holding the sum a + b: a gauge observation is a *)
(* delta (possibly negative), it never replaces the resting value.         *)
C2_CounterGaugeSum ==
    (Merging /\ (SameVariant("Counter") \/ SameVariant("Gauge"))) =>
        /\ target.value.type = prev.value.type
        /\ target.value.value = prev.value.value + other.value.value

C2_Witness ==
    /\ Merging
    /\ prev.value = Gauge(1) /\ other.value = Gauge(-2)
    /\ target.value = Gauge(-1)

(* C3: an Incremental Set added to a Set leaves the union of both value *)
(* sets: every element of either operand, and no other element.         *)
C3_SetUnion ==
    (Merging /\ SameVariant("Set")) =>
        /\ target.value.type = "Set"
        /\ \A e \in prev.value.values \cup other.value.values : e \in target.value.values
        /\ \A e \in target.value.values : e \in prev.value.values \/ e \in other.value.values

C3_Witness ==
    /\ Merging
    /\ prev.value = Set({"old"}) /\ other.value = Set({"new"})
    /\ target.value = Set({"old", "new"})

(* C4: an Incremental Distribution added to a Distribution of equal        *)
(* statistic leaves values = target.values followed by other.values and    *)
(* sample_rates likewise: lengths add up, order is kept, the target's      *)
(* entries come first, and statistic is unchanged.                         *)
C4_DistributionConcat ==
    (Merging /\ SameVariant("Distribution")
        /\ prev.value.statistic = other.value.statistic) =>
        /\ target.value.type = "Distribution"
        /\ target.value.statistic = prev.value.statistic
        /\ Len(target.value.values) = Len(prev.value.values) + Len(other.value.values)
        /\ Len(target.value.sample_rates) =
               Len(prev.value.sample_rates) + Len(other.value.sample_rates)
        /\ \A i \in 1..Len(prev.value.values) :
               /\ target.value.values[i] = prev.value.values[i]
               /\ target.value.sample_rates[i] = prev.value.sample_rates[i]
        /\ \A i \in 1..Len(other.value.values) :
               /\ target.value.values[Len(prev.value.values) + i] = other.value.values[i]
               /\ target.value.sample_rates[Len(prev.value.sample_rates) + i] =
                      other.value.sample_rates[i]

C4_Witness ==
    /\ Merging /\ SameVariant("Distribution")
    /\ prev.value.statistic = other.value.statistic
    /\ prev.value.values = <<1>> /\ other.value.values = <<2>>
    /\ target.value.values = <<1, 2>> /\ target.value.sample_rates = <<10, 20>>

(* c is the sum of the u32 values a and b *)
IsU32Sum(c, a, b) == ~u32_overflows(a, b) /\ c = u32_wrapping_add(a, b)

(* the histogram v with all of v2 merged in *)
IsHistogramSum(r, v, v2) ==
    /\ r.type = "AggregatedHistogram"
    /\ r.buckets = v.buckets
    /\ Len(r.counts) = Len(v.counts)
    /\ \A i \in 1..Len(v.counts) : IsU32Sum(r.counts[i], v.counts[i], v2.counts[i])
    /\ IsU32Sum(r.count, v.count, v2.count)
    /\ r.sum = v.sum + v2.sum

(* C5: an Incremental AggregatedHistogram added to one with identical     *)
(* buckets sums counts position-wise and adds count and sum; with         *)
(* differing buckets the target is unchanged; and the merge is            *)
(* all-or-nothing, never some of counts, count and sum updated.           *)
C5_HistogramMerge ==
    (Merging /\ SameVariant("AggregatedHistogram")) =>
        /\ prev.value.buckets = other.value.buckets =>
               IsHistogramSum(target.value, prev.value, other.value)
        /\ prev.value.buckets # other.value.buckets => target = prev
        /\ \/ target.value = prev.value
           \/ IsHistogramSum(target.value, prev.value, other.value)

(* the operand pairs that have no merge rule *)
NoMergeRule(v, v2) ==
    \/ v.type # v2.type
    \/ v.type = "Distribution" /\ v.statistic # v2.statistic
    \/ v.type = "AggregatedSummary"

(* C6: add is a silent no-op (target unchanged, no panic) for every pair   *)
(* without a merge rule: differing variants, Distributions of differing    *)
(* statistic, and every pair of AggregatedSummary.                         *)
C6_NoRuleIsNoop ==
    (op = "add" /\ NoMergeRule(prev.value, other.value)) =>
        (target = prev /\ ~panicked)

C6_Witness ==
    /\ Merging /\ SameVariant("Distribution")
    /\ prev.value.statistic # other.value.statistic
    /\ other.value.values # <<>>

(* C7: add never changes the target's name, tags, timestamp or kind,      *)
(* whatever the name, tags, timestamp and value of `other` are.           *)
C7_AddKeepsIdentity ==
    op = "add" =>
        /\ target.name = prev.name
        /\ target.tags = prev.tags
        /\ target.timestamp = prev.timestamp
        /\ target.kind = prev.kind

C7_Witness ==
    /\ Merging
    /\ target.value # prev.value
    /\ prev.timestamp = None /\ other.timestamp # None
    /\ prev.tags = None /\ other.tags # None
    /\ other.name # prev.name

(* C8: after any sequence of add and reset calls the value has the        *)
(* variant the series started with, and a Distribution its statistic.    *)
C8_VariantInvariant ==
    /\ target.value.type = first.type
    /\ target.value.type = "Distribution" => target.value.statistic = first.statistic

C8_Witness ==
    /\ ops >= 2 /\ op = "add" /\ other.kind = "Incremental"
    /\ other.value.type # prev.value.type
    /\ prev.value.type = "Distribution" /\ prev.value.statistic = "Summary"

(* C9: parallel sequences keep equal lengths through every add and reset: *)
(* values/sample_rates, buckets/counts and quantiles/values.              *)
C9_ParallelLengths ==
    /\ target.value.type = "Distribution" =>
           Len(target.value.values) = Len(target.value.sample_rates)
    /\ target.value.type = "AggregatedHistogram" =>
           Len(target.value.buckets) = Len(target.value.counts)
    /\ target.value.type = "AggregatedSummary" =>
           Len(target.value.quantiles) = Len(target.value.values)

C9_Witness ==
    /\ ops >= 2 /\ op = "reset"
    /\ target.value.type = "Distribution"
    /\ Len(prev.value.values) >= 2

(* C10: across add and reset an AggregatedHistogram's buckets and an      *)
(* AggregatedSummary's quantiles never change; reset of a histogram with  *)
(* N buckets leaves the same N buckets and N counts, all zero.            *)
C10_ShapeFixed ==
    /\ target.value.type = "AggregatedHistogram" => target.value.buckets = first.buckets
    /\ target.value.type = "AggregatedSummary" => target.value.quantiles = first.quantiles
    /\ (op = "reset" /\ target.value.type = "AggregatedHistogram") =>
           /\ target.value.buckets = prev.value.buckets
           /\ Len(target.value.counts) = Len(prev.value.buckets)
           /\ \A i \in 1..Len(target.value.counts) : target.value.counts[i] = u32(0)

C10_Witness ==
    /\ op = "reset" /\ target.value.type = "AggregatedHistogram"
    /\ Len(target.value.buckets) = 2
    /\ \E i \in 1..Len(prev.value.counts) : prev.value.counts[i] # u32(0)

(* C11: reset zeroes every variant: Counter and Gauge 0; Set empty;       *)
(* Distribution values and sample_rates empty; AggregatedHistogram every  *)
(* counts entry 0, count 0, sum 0; AggregatedSummary every values entry   *)
(* 0, count 0, sum 0; and name, tags, timestamp and kind are unchanged.   *)
C11_ResetZeroes ==
    op = "reset" =>
        /\ target.name = prev.name /\ target.tags = prev.tags
        /\ target.timestamp = prev.timestamp /\ target.kind = prev.kind
        /\ target.value.type = prev.value.type
        /\ target.value.type \in {"Counter", "Gauge"} => target.value.value = 0
        /\ target.value.type = "Set" => target.value.values = {}
        /\ target.value.type = "Distribution" =>
               target.value.values = <<>> /\ target.value.sample_rates = <<>>
        /\ target.value.type = "AggregatedHistogram" =>
               /\ Len(target.value.counts) = Len(prev.value.counts)
               /\ \A i \in 1..Len(target.value.counts) : target.value.counts[i] = u32(0)
               /\ target.value.count = u32(0) /\ target.value.sum = 0
        /\ target.value.type = "AggregatedSummary" =>
               /\ Len(target.value.values) = Len(prev.value.values)
               /\ \A i \in 1..Len(target.value.values) : target.value.values[i] = 0
               /\ target.value.count = u32(0) /\ target.value.sum = 0

C11_Witness ==
    /\ op = "reset" /\ prev.value.type = "AggregatedSummary"
    /\ Len(prev.value.values) = 2 /\ prev.value.values[2] # 0
    /\ prev.timestamp # None /\ prev.tags # None

(* C12: no call panics or corrupts the series: add on AggregatedHistogram *)
(* operands with identical buckets, also when counts or count add up past *)
(* the u32 range or the counts vectors differ in length, ends without     *)
(* panic with the series merged per the rules or unchanged.               *)
C12_NoPanicNoCorruption ==
    /\ ~panicked
    /\ (Merging /\ SameVariant("AggregatedHistogram")) =>
           \/ target.value = prev.value
           \/ IsHistogramSum(target.value, prev.value, other.value)

(* C20: add decides on other.kind only: an Absolute target that receives  *)
(* an Incremental observation of its variant is merged like an            *)
(* Incremental target, and stays Absolute.                                *)
C20_IncrementOnAbsolute ==
    (Merging /\ prev.kind = "Absolute" /\ ~panicked) =>
        /\ target.kind = "Absolute"
        /\ (SameVariant("Counter") \/ SameVariant("Gauge")) =>
               target.value.value = prev.value.value + other.value.value
        /\ SameVariant("Set") =>
               target.value.values = prev.value.values \cup other.value.values
        /\ (SameVariant("Distribution")
                /\ prev.value.statistic = other.value.statistic) =>
               /\ target.value.values = prev.value.values \o other.value.values
               /\ target.value.sample_rates =
                      prev.value.sample_rates \o other.value.sample_rates
        /\ (SameVariant("AggregatedHistogram")
                /\ prev.value.buckets = other.value.buckets
                /\ Len(prev.value.counts) = Len(other.value.counts)) =>
               /\ target.value.sum = prev.value.sum + other.value.sum
               /\ target.value.count = u32_wrapping_add(prev.value.count, other.value.count)

C20_Witness ==
    /\ Merging /\ prev.kind = "Absolute" /\ target.kind = "Absolute"
    /\ prev.value = Counter(1) /\ other.value = Counter(-2)
    /\ target.value = Counter(-1)

(* the series after the observations were added one after the other, in *)
(* a build oc; a panic ends the sequence                                *)
RECURSIVE fold_add(_, _, _)
fold_add(self, observations, oc) ==
    IF observations = <<>> THEN Outcome(self, FALSE)
    ELSE LET r == add(self, Head(observations), oc)
         IN  IF r.panic THEN r ELSE fold_add(r.metric, Tail(observations), oc)

(* the Incremental observations that have a merge rule with the series t *)
SameShapeIncrements(t) ==
    {o \in Observations :
        /\ o.kind = "Incremental"
        /\ o.value.type = t.value.type
        /\ o.value.type # "AggregatedSummary"
        /\ o.value.type = "Distribution" => o.value.statistic = t.value.statistic
        /\ o.value.type = "AggregatedHistogram" =>
               /\ o.value.buckets = t.value.buckets
               /\ Len(o.value.counts) = Len(t.value.counts)}

RECURSIVE SumOf(_)
SumOf(xs) == IF xs = <<>> THEN 0 ELSE Head(xs) + SumOf(Tail(xs))

(* the sum of u32 numbers as a number: its halves, the upper one unbounded *)
WideSum(ns) ==
    LET lo == SumOf([i \in 1..Len(ns) |-> ns[i].lo])
        hi == SumOf([i \in 1..Len(ns) |-> ns[i].hi])
    IN  [hi |-> hi + lo \div HalfModulus, lo |-> lo % HalfModulus]

(* v is what the observations alone amount to, for a series shaped like zero *)
IsFoldAlone(v, zero, observations) ==
    LET n == Len(observations)
        vs == [i \in 1..n |-> observations[i].value]
    IN  /\ v.type = zero.type
        /\ v.type \in {"Counter", "Gauge"} => v.value = SumOf([i \in 1..n |-> vs[i].value])
        /\ v.type = "Set" => v.values = UNION {vs[i].values : i \in 1..n}
        /\ v.type = "Distribution" =>
               /\ v.statistic = zero.statistic
               /\ v.values = concat([i \in 1..n |-> vs[i].values])
               /\ v.sample_rates = concat([i \in 1..n |-> vs[i].sample_rates])
        /\ v.type = "AggregatedHistogram" =>
               /\ v.buckets = zero.buckets
               /\ Len(v.counts) = Len(zero.counts)
               /\ \A b \in 1..Len(v.counts) : v.counts[b] = WideSum([i \in 1..n |-> vs[i].counts[b]])
               /\ v.count = WideSum([i \in 1..n |-> vs[i].count])
               /\ v.sum = SumOf([i \in 1..n |-> vs[i].sum])

(* C21: after reset, whatever was accumulated before, a sequence of       *)
(* Incremental same-shape observations folds to what those observations   *)
(* alone amount to: the sum of the deltas for a Counter or Gauge, the     *)
(* union of the new values for a Set, the new samples for a Distribution, *)
(* the sums of counts, count and sum for an AggregatedHistogram; and      *)
(* reset after reset changes nothing.                                     *)
C21_WindowFromZero ==
    op = "reset" =>
        /\ reset(target) = target
        /\ \A observations \in SeqsUpTo(SameShapeIncrements(target), MaxWindow), oc \in Builds :
               LET r == fold_add(target, observations, oc)
               IN  /\ ~r.panic
                   /\ IsFoldAlone(r.metric.value, target.value, observations)

(* the Incremental observations that the series t drops: another variant, *)
(* or a histogram of other buckets or misaligned counts                    *)
DroppedIncrements(t) ==
    {o \in Observations :
        /\ o.kind = "Incremental"
        /\ \/ o.value.type # t.value.type
           \/ /\ o.value.type = "AggregatedHistogram"
              /\ \/ o.value.buckets # t.value.buckets
                 \/ Len(o.value.counts) # Len(t.value.counts)}

(* C22: for a Counter, Gauge, Set or AggregatedHistogram series and two    *)
(* Incremental same-shape observations d1 and d2, adding d1 then d2 leaves *)
(* the series as adding d2 then d1 does; an observation dropped as a shape *)
(* mismatch changes nothing, before, between or after them.                *)
C22_OrderIndependent ==
    (/\ op = "add"
     /\ prev.value.type \in {"Counter", "Gauge", "Set", "AggregatedHistogram"}
     /\ other \in SameShapeIncrements(prev)) =>
        \A d2 \in SameShapeIncrements(prev), oc \in Builds :
            LET d1 == other
                both == fold_add(prev, <<d1, d2>>, oc).metric
            IN  /\ fold_add(prev, <<d2, d1>>, oc).metric = both
                /\ \A x \in DroppedIncrements(prev) :
                       /\ fold_add(prev, <<x, d1, d2>>, oc).metric = both
                       /\ fold_add(prev, <<d1, x, d2>>, oc).metric = both
                       /\ fold_add(prev, <<d1, d2, x>>, oc).metric = both

----------------------------------------------------------------------------
(* Properties of the lookups *)

(* the (key, value) pairs a metric is tagged with *)
TagPairs(m) == UNION {{<<k, t[k]>> : k \in DOMAIN t} : t \in {m.tags[i] : i \in 1..Len(m.tags)}}

(* C13: tag_matches(m, key, value) is true iff m.tags is present and maps *)
(* key to exactly value: false for no tags, an absent key, and any other  *)
(* value (another case, a longer value, the empty value).                 *)
C13_TagMatchesExact ==
    call.fn = "tag_matches" =>
        /\ ret = (<<call.name, call.value>> \in TagPairs(call.self))
        /\ call.self.tags = None => ret = FALSE
        /\ (call.self.tags # None /\ call.name \notin DOMAIN call.self.tags[1]) => ret = FALSE
        /\ (call.self.tags # None /\ call.name \in DOMAIN call.self.tags[1]
                /\ call.self.tags[1][call.name] # call.value) => ret = FALSE

C13_Witness ==
    /\ call.fn = "tag_matches"
    /\ call.self.tags # None /\ call.name \in DOMAIN call.self.tags[1]
    /\ call.self.tags[1][call.name] = "In" /\ call.value = "in"
    /\ ret = FALSE

(* the events of the snapshot the lookup is after *)
IsWanted(ev, x) ==
    /\ ev.type = "Metric"
    /\ ev.metric.name = "events_processed"
    /\ <<"component_name", x>> \in TagPairs(ev.metric)

(* C14: topology_events_processed(X) returns the first event of the       *)
(* snapshot that is a metric named events_processed tagged                *)
(* component_name = X, and None when the snapshot holds none; a miss is   *)
(* no error and no panic.                                                 *)
C14_FirstMatchOrNone ==
    (call.fn = "topology_events_processed" /\ call.controller = "initialized") =>
        LET sn == call.snapshot
            hits == {i \in 1..Len(sn) : IsWanted(sn[i], call.topology_name)}
        IN  /\ ~ret.panic
            /\ hits = {} => ret.value = None
            /\ hits # {} =>
                   \E i \in hits :
                       /\ \A j \in hits : i <= j
                       /\ ret.value = Some(EventsProcessed(sn[i].metric))

C14_Witness ==
    /\ call.fn = "topology_events_processed" /\ call.controller = "initialized"
    /\ Len(call.snapshot) = 2
    /\ call.snapshot[1].type = "Metric" /\ call.snapshot[1].metric.name = "bytes_processed"
    /\ tag_matches(call.snapshot[1].metric, "component_name", call.topology_name)
    /\ ~IsWanted(call.snapshot[2], call.topology_name)
    /\ ret = Returned(None)

----------------------------------------------------------------------------
(* Properties of from_metric_kv *)

(* C15: a metric built by from_metric_kv is Absolute and has a timestamp; *)
(* its tags are None without labels and Some(non-empty map of the labels) *)
(* otherwise, never Some(empty map); a counter handle gives Counter, a    *)
(* gauge handle Gauge, a histogram handle a Distribution of statistic     *)
(* Histogram with as many sample_rates as values, each rate 1.            *)
C15_BuiltMetric ==
    call.fn = "from_metric_kv" =>
        LET labels == call.key.labels
        IN  /\ ret.kind = "Absolute"
            /\ ret.timestamp # None /\ ret.timestamp = Some(call.now)
            /\ labels = <<>> => ret.tags = None
            /\ labels # <<>> =>
                   /\ ret.tags # None
                   /\ DOMAIN ret.tags[1] # {}
                   /\ DOMAIN ret.tags[1] = {labels[i][1] : i \in 1..Len(labels)}
                   /\ \A k \in DOMAIN ret.tags[1] :
                          \E i \in 1..Len(labels) : labels[i] = <<k, ret.tags[1][k]>>
            /\ ret.tags # Some(<<>>)
            /\ call.handle.type = "Counter" => ret.value.type = "Counter"
            /\ call.handle.type = "Gauge" => ret.value.type = "Gauge"
            /\ call.handle.type = "Histogram" =>
                   /\ ret.value.type = "Distribution"
                   /\ ret.value.statistic = "Histogram"
                   /\ Len(ret.value.values) = Len(call.handle.reading)
                   /\ Len(ret.value.sample_rates) = Len(ret.value.values)
                   /\ \A i \in 1..Len(ret.value.sample_rates) : ret.value.sample_rates[i] = 1

C15_Witness ==
    /\ call.fn = "from_metric_kv"
    /\ call.key.labels = <<>> /\ ret.tags = None
    /\ call.handle.type = "Histogram" /\ Len(call.handle.reading) = 2
    /\ ret.value.sample_rates = <<1, 1>>

----------------------------------------------------------------------------
(* Properties of the formatter *)

Reorderings(seq) ==
    {[i \in 1..Len(seq) |-> seq[p[i]]] :
        p \in {f \in [1..Len(seq) -> 1..Len(seq)] : \A i, j \in 1..Len(seq) : f[i] = f[j] => i = j}}
DistinctKeys(pairs) == \A i, j \in 1..Len(pairs) : pairs[i][1] = pairs[j][1] => i = j
Ascending(words) == \A i \in 1..(Len(words) - 1) : str_lt(words[i], words[i + 1])
IndexOf(c, text) == CHOOSE i \in 1..Len(text) : text[i] = c /\ \A j \in 1..(i - 1) : text[j] # c
Joined(sep, parts) == concat([i \in 1..Len(parts) |-> (IF i = 1 THEN <<>> ELSE sep) \o parts[i]])

(* C16: formatting a metric again gives the same text; a metric whose tags *)
(* (or Set values) were inserted in another order formats to the same     *)
(* text; the text always has a {} block, holding the tags key="value" in  *)
(* ascending key order, and Set values follow in ascending order.         *)
C16_OrderCanonical ==
    call.fn = "fmt" =>
        LET self == call.self
            open == IndexOf("{", ret)
            close == IndexOf("}", ret)
        IN  /\ fmt(self) = ret
            /\ \E i, j \in 1..Len(ret) : i < j /\ ret[i] = "{" /\ ret[j] = "}"
            /\ self.tags = None => close = open + 1
            /\ call.tags_inserted # None /\ DistinctKeys(call.tags_inserted[1]) =>
                   /\ \A q \in Reorderings(call.tags_inserted[1]) :
                          fmt([self EXCEPT !.tags = Some(collect_map(q))]) = ret
                   /\ \E q \in Reorderings(call.tags_inserted[1]) :
                          /\ Ascending([i \in 1..Len(q) |-> q[i][1]])
                          /\ SubSeq(ret, open + 1, close - 1) =
                                 Joined(<<",">>, [i \in 1..Len(q) |->
                                     write_word(q[i][1]) \o <<"=">> \o debug_str(q[i][2])])
            /\ call.values_inserted # None =>
                   /\ \A q \in Reorderings(call.values_inserted[1]) :
                          fmt([self EXCEPT !.value = Set(collect_set(q))]) = ret
                   /\ \E vs \in SeqsUpTo(Words, MaxInserted) :
                          /\ Ascending(vs)
                          /\ {vs[i] : i \in 1..Len(vs)} =
                                 {call.values_inserted[1][i] : i \in 1..Len(call.values_inserted[1])}
                          /\ SubSeq(ret, close + 4, Len(ret)) =
                                 Joined(<<" ">>, [i \in 1..Len(vs) |-> write_word(vs[i])])

C16_Witness ==
    /\ call.fn = "fmt"
    /\ call.tags_inserted = Some(<< <<(<<"a">>), <<>> >>, <<(<<"B">>), <<>> >> >>)
    /\ call.self.timestamp = None /\ call.self.name = <<"a", "_", "1">>
    /\ call.self.kind = "Absolute" /\ call.self.value = Counter(1)
    /\ ret = <<"a", "_", "1", "{", "B", "=", "\"", "\"", ",", "a", "=", "\"", "\"", "}",
               " ", "=", " ", "1">>

IsBareWord(word) ==
    /\ Len(word) >= 1
    /\ \A i \in 1..Len(word) : is_ascii_alphanumeric(word[i]) \/ word[i] = "_"

(* C17: a word is written bare if it is one or more ASCII letters, digits *)
(* or underscores, and as a quoted, escaped string otherwise: with a      *)
(* space, an '=', a non-ASCII letter, or no characters at all.            *)
C17_BareOrQuoted ==
    call.fn = "write_word" =>
        /\ IsBareWord(call.word) => ret = call.word
        /\ ~IsBareWord(call.word) =>
               /\ Len(ret) >= 2 /\ ret[1] = "\"" /\ ret[Len(ret)] = "\""
               /\ ret = debug_str(call.word)

----------------------------------------------------------------------------
(* Properties of the subscriptions *)

InRange(interval) == interval # None /\ interval[1] \in 100..60000

(* C18: on each of the four subscriptions an interval outside 100..=60000 *)
(* is rejected before any tick or snapshot; a timer is only ever created  *)
(* with a period inside that range, never zero or negative.               *)
C18_IntervalValidated ==
    \A i \in 1..Len(subs) :
        LET sub == subs[i]
        IN  /\ sub.field \in Fields
            /\ ~InRange(sub.interval) =>
                   /\ sub.status = "rejected"
                   /\ sub.period = None /\ sub.ticks = 0 /\ sub.snapshots = 0 /\ sub.items = <<>>
            /\ sub.period # None =>
                   /\ InRange(sub.interval)
                   /\ sub.period = Some(<<0, 0, 0, sub.interval[1]>>)
            /\ sub.ticks > 0 \/ sub.snapshots > 0 => InRange(sub.interval)
            /\ sub.status # "panicked"

----------------------------------------------------------------------------
(* Properties of the statsd source *)

(* the lines received so far, in input order *)
RECURSIVE ReceivedLines(_)
ReceivedLines(frames) ==
    IF frames = <<>> THEN <<>>
    ELSE (IF Head(frames).ok
          THEN SelectSeq(Head(frames).value, LAMBDA piece : piece # "\n")
          ELSE <<>>) \o ReceivedLines(Tail(frames))
WellFormed(line) == line \in {"foo:1|c", "bar:42|g"}
MetricOfLine(line) ==
    IF line = "foo:1|c" THEN Metric("foo", None, None, "Incremental", Counter(1))
    ELSE Metric("bar", None, None, "Absolute", Gauge(42))

(* C19: as long as no send has failed, every well-formed line received so *)
(* far has been forwarded as exactly one Event::Metric, in input order,   *)
(* every malformed line was reported invalid and forwarded nothing, and a *)
(* malformed line stopped nothing: lines before and after it in the same *)
(* packet, and later packets, are forwarded.  The loop ends on a failed  *)
(* send only, which takes a well-formed line in the frame.               *)
C19_LinesForwarded ==
    /\ source = "send_failed" =>
           /\ packets[Len(packets)].ok
           /\ \E i \in 1..Len(packets[Len(packets)].value) :
                  WellFormed(packets[Len(packets)].value[i])
    /\ source # "send_failed" =>
        LET received == ReceivedLines(packets)
            valid == SelectSeq(received, WellFormed)
        IN  /\ Len(out) = Len(valid)
            /\ \A i \in 1..Len(out) : out[i] = [type |-> "Metric", metric |-> MetricOfLine(valid[i])]
            /\ invalid = SelectSeq(received, LAMBDA line : ~WellFormed(line))
            /\ Len(out) + Len(invalid) = Len(received)

C19_Witness ==
    /\ source = "listening"
    /\ packets = <<Ok(<<"foo:1|c", "\n", "garbage", "\n">>), Ok(<<"garbage", "\n", "bar:42|g", "\n">>)>>
    /\ Len(out) = 2 /\ out[1].metric.name = "foo" /\ out[2].metric.name = "bar"
    /\ invalid = <<"garbage", "garbage">>

====
